---- MODULE Spec2Model ----
\* Model of the bbolt cache decorator of quranc (boltCacheMiddleware,
\* BoltCache, the key and value codecs) in front of the wrapped QuranAPI.
EXTENDS Integers, Sequences, FiniteSets, TLC

\* ---------------------------------------------------------------------
\* Bounds
\* ---------------------------------------------------------------------
MaxCalls == 2
MaxBoots == 2
MaxSeqLen == 2
\* Successive processes of the program using the same bolt file.
MaxProcs == 2

Procs == {"p1", "p2"}

\* ---------------------------------------------------------------------
\* Bucket names (const block of the cache file)
\* ---------------------------------------------------------------------
bucketChapters == "chapters"
bucketChapter == "chapter"
bucketChapterInfo == "chapterinfo"
bucketJuzzah == "juzzah"
bucketLanguages == "languages"
bucketRecitations == "recitations"
bucketTafsiraat == "tafsiraat"
bucketTranslations == "translations"
bucketVerse == "verse"
bucketVerseTafsir == "verse_tafsir"
bucketVerses == "verses"

\* The map literal of BoltCache: top-level bucket -> nested buckets.
\* Mutant: verses lists only its verse nested bucket.
BoltCacheBucketsNoVerseTafsir ==
  [b \in {bucketChapters, bucketJuzzah, bucketLanguages, bucketRecitations,
          bucketTafsiraat, bucketTranslations, bucketVerses} |->
     IF b = bucketChapters THEN <<bucketChapter, bucketChapterInfo>>
     ELSE IF b = bucketVerses THEN <<bucketVerse>>
     ELSE <<>>]

BoltCacheBuckets ==
  [b \in {bucketChapters, bucketJuzzah, bucketLanguages, bucketRecitations,
          bucketTafsiraat, bucketTranslations, bucketVerses} |->
     IF b = bucketChapters THEN <<bucketChapter, bucketChapterInfo>>
     ELSE IF b = bucketVerses THEN <<bucketVerse, bucketVerseTafsir>>
     ELSE <<>>]

\* Every bucket path BoltCache creates.
RequiredPaths ==
  {<<b>> : b \in DOMAIN BoltCacheBuckets}
  \cup UNION {{<<b, BoltCacheBuckets[b][i]>> : i \in 1..Len(BoltCacheBuckets[b])}
               : b \in DOMAIN BoltCacheBuckets}

\* ---------------------------------------------------------------------
\* itoa / join (strconv.Itoa, strings.Join with ":")
\* ---------------------------------------------------------------------
Digits == <<"0", "1", "2", "3", "4", "5", "6", "7", "8", "9">>

RECURSIVE ItoaNat(_)
ItoaNat(n) == IF n < 10 THEN Digits[n + 1]
              ELSE ItoaNat(n \div 10) \o Digits[(n % 10) + 1]

itoa(i) == IF i < 0 THEN "-" \o ItoaNat(-i) ELSE ItoaNat(i)

\* Mutant: components concatenated without the ":" delimiter.
RECURSIVE joinNoSep(_)
joinNoSep(ss) == IF ss = <<>> THEN "" ELSE Head(ss) \o joinNoSep(Tail(ss))

RECURSIVE join(_)
join(ss) == IF ss = <<>> THEN ""
            ELSE IF Len(ss) = 1 THEN Head(ss)
            ELSE Head(ss) \o ":" \o join(Tail(ss))

\* ---------------------------------------------------------------------
\* Request options. An option function is a record [fn, arg]; a call's
\* options are the sequence the caller passes, folded left as the code does.
\* ---------------------------------------------------------------------
\* (integer arguments are carried as sequences and string arguments in
\* sarg, so that all option records have the same shape)
LanguageID(id) == [fn |-> "LanguageID", arg |-> <<id>>, sarg |-> ""]
TafsirID(id) == [fn |-> "TafsirID", arg |-> <<id>>, sarg |-> ""]
VersesLanguage(isoCode) == [fn |-> "VersesLanguage", arg |-> <<>>, sarg |-> isoCode]
VersesRecitation(recitation) == [fn |-> "VersesRecitation", arg |-> <<recitation>>, sarg |-> ""]
VersesTextType(textType) == [fn |-> "VersesTextType", arg |-> <<>>, sarg |-> textType]
VersesLimit(i) == [fn |-> "VersesLimit", arg |-> <<i>>, sarg |-> ""]
VersesOffset(i) == [fn |-> "VersesOffset", arg |-> <<i>>, sarg |-> ""]
VersesPage(i) == [fn |-> "VersesPage", arg |-> <<i>>, sarg |-> ""]
VersesMedia(m) == [fn |-> "VersesMedia", arg |-> m, sarg |-> ""]
VersesTranslations(t) == [fn |-> "VersesTranslations", arg |-> t, sarg |-> ""]

ZeroReqOpt == [languageID |-> 0]
ZeroVersesReqOpt ==
  [Language |-> "", Recitation |-> 0, TextType |-> "", Page |-> 0,
   Limit |-> 0, Offset |-> 0, Media |-> <<>>, Translations |-> <<>>]
ZeroVerseTafsirReqOpts == [Tafsir |-> ""]

ApplyOpt(o, f) ==
  CASE f.fn = "LanguageID" -> [o EXCEPT !.languageID = f.arg[1]]
    [] f.fn = "TafsirID" -> [o EXCEPT !.Tafsir = itoa(f.arg[1])]
    [] f.fn = "VersesLanguage" -> [o EXCEPT !.Language = f.sarg]
    [] f.fn = "VersesRecitation" -> [o EXCEPT !.Recitation = f.arg[1]]
    [] f.fn = "VersesTextType" -> [o EXCEPT !.TextType = f.sarg]
    [] f.fn = "VersesLimit" -> [o EXCEPT !.Limit = f.arg[1]]
    [] f.fn = "VersesOffset" -> [o EXCEPT !.Offset = f.arg[1]]
    [] f.fn = "VersesPage" -> [o EXCEPT !.Page = f.arg[1]]
    [] f.fn = "VersesMedia" -> [o EXCEPT !.Media = f.arg]
    [] f.fn = "VersesTranslations" -> [o EXCEPT !.Translations = f.arg]

RECURSIVE FoldOpts(_, _)
FoldOpts(o, fs) == IF fs = <<>> THEN o ELSE FoldOpts(ApplyOpt(o, Head(fs)), Tail(fs))

\* Two versesReqOpt values equal except for the order of the elements of
\* Media and of Translations.
Count(s, x) == Cardinality({i \in 1..Len(s) : s[i] = x})
IsPermutation(s, t) == Len(s) = Len(t) /\ \A x \in {s[i] : i \in 1..Len(s)} \cup {t[i] : i \in 1..Len(t)} : Count(s, x) = Count(t, x)
SameElems(s, t) == {s[i] : i \in 1..Len(s)} = {t[i] : i \in 1..Len(t)}
SameScalars(a, b) ==
  /\ a.Language = b.Language /\ a.Recitation = b.Recitation /\ a.TextType = b.TextType
  /\ a.Page = b.Page /\ a.Limit = b.Limit /\ a.Offset = b.Offset
EqualUpToOrder(a, b) ==
  SameScalars(a, b) /\ IsPermutation(a.Media, b.Media) /\ IsPermutation(a.Translations, b.Translations)


\* ---------------------------------------------------------------------
\* versesReqOpt.key: sort.Ints on both slices, then gob-encode
\* struct{VerseReqOpts versesReqOpt; ChapterID int}.
\* ---------------------------------------------------------------------
RECURSIVE InsertSorted(_, _)
InsertSorted(x, s) == IF s = <<>> THEN <<x>>
                      ELSE IF x <= Head(s) THEN <<x>> \o s
                      ELSE <<Head(s)>> \o InsertSorted(x, Tail(s))

RECURSIVE SortInts(_)
SortInts(s) == IF s = <<>> THEN s ELSE InsertSorted(Head(s), SortInts(Tail(s)))

\* gob sends a struct as the (field number, value) pairs of its fields that
\* are not the zero value of their type (empty slices included); a nested
\* struct field is always sent.
GobField(i, v, zero) == IF v = zero THEN <<>> ELSE <<<<i, v>>>>

\* Mutant: the Media field is left out of the encoding.
GobVersesReqOptNoMedia(v) ==
  GobField(0, v.Language, "") \o GobField(1, v.Recitation, 0)
  \o GobField(2, v.TextType, "") \o GobField(3, v.Page, 0)
  \o GobField(4, v.Limit, 0) \o GobField(5, v.Offset, 0)
  \o GobField(7, v.Translations, <<>>)

GobVersesReqOpt(v) ==
  GobField(0, v.Language, "") \o GobField(1, v.Recitation, 0)
  \o GobField(2, v.TextType, "") \o GobField(3, v.Page, 0)
  \o GobField(4, v.Limit, 0) \o GobField(5, v.Offset, 0)
  \o GobField(6, v.Media, <<>>) \o GobField(7, v.Translations, <<>>)

\* encoding/gob gives each Go type it encodes a wire type id from one
\* counter shared by the whole process, when the type is first encoded
\* there (a struct and then the types of its fields, a slice and its
\* element type); decoding assigns none. reg is the sequence of the types
\* registered so far in the process: a type's id is gob's first user id
\* plus its position in reg, minus one.
RECURSIVE GobRegister(_, _)
GobRegister(reg, ts) ==
  IF ts = <<>> THEN reg
  ELSE GobRegister(IF \E i \in 1..Len(reg) : reg[i] = Head(ts) THEN reg
                   ELSE Append(reg, Head(ts)), Tail(ts))

GobTypeIndex(reg, t) == CHOOSE i \in 1..Len(reg) : reg[i] = t

\* The types key() encodes: the anonymous input struct, versesReqOpt and
\* []int (strings and ints have predefined ids).
VersesKeyTypes ==
  <<"struct { VerseReqOpts versesReqOpt; ChapterID int }", "versesReqOpt", "[]int">>

\* The Go types valueEncoder registers for each method's result.
VerseGobTypes ==
  <<"Verse", "struct Verse.Audio", "[][]string", "[]string", "[]Resource", "Resource",
    "[]struct Verse.MediaContents", "struct Verse.MediaContents", "[]Word", "Word",
    "struct Word.Audio">>
ChapterGobTypes == <<"Chapter", "struct Chapter.Pages", "TranslatedName">>

GobValueTypes(op) ==
  CASE op = "Recitations" -> <<"[]Recitation", "Recitation">>
    [] op = "Translations" -> <<"[]Translation", "Translation">>
    [] op = "Languages" -> <<"[]Language", "Language", "[]TranslatedName", "TranslatedName">>
    [] op = "Tafsiraat" -> <<"[]Tafsir", "Tafsir">>
    [] op = "Chapters" -> <<"[]Chapter">> \o ChapterGobTypes
    [] op = "Chapter" -> ChapterGobTypes
    [] op = "ChapterInfo" -> <<"ChapterInfo">>
    [] op = "Verses" -> <<"[]Verse">> \o VerseGobTypes
    [] op = "Verse" -> VerseGobTypes
    [] op = "Juzzah" -> <<"[]Juz", "Juz", "[]JuzMapping", "JuzMapping">>
    [] op = "VerseTafsir" -> <<"[]VerseTafsir", "VerseTafsir">>
    [] OTHER -> <<>>

\* The registry of a process whose first use of gob is a Verses key.
FreshReg == GobRegister(<<>>, VersesKeyTypes)

\* The stream of gob.NewEncoder(&buf).Encode(input): the definitions of the
\* three types under their ids in reg, then the value under the input
\* struct's id.
GobEncodeVersesKey(v, chapterID, reg) ==
  "gob:" \o ToString(<<[i \in 1..3 |-> GobTypeIndex(reg, VersesKeyTypes[i])],
                      GobTypeIndex(reg, VersesKeyTypes[1]),
                      <<<<0, GobVersesReqOpt(v)>>>> \o GobField(1, chapterID, 0)>>)

\* Mutant: the slices are encoded in caller order (sort step skipped).
VersesKeyUnsorted(v, chapterID, reg) == GobEncodeVersesKey(v, chapterID, reg)

VersesKey(v, chapterID, reg) ==
  GobEncodeVersesKey([v EXCEPT !.Media = SortInts(v.Media),
                               !.Translations = SortInts(v.Translations)],
                     chapterID, reg)

\* ---------------------------------------------------------------------
\* Value codec: valueEncoder / valueDecode (gob). Stored bytes are a
\* record; NilBytes is what Bucket.Get returns for an absent key;
\* gob's Decode returns io.EOF exactly when its input is empty.
\* A VerseTafsir whose VerseKey interface holds a type gob has not
\* registered (e.g. a JSON object) cannot be encoded.
\* ---------------------------------------------------------------------
NilBytes == [kind |-> "nil", val |-> "nil"]
\* A zero-length value stored under a key (Get returns it, not nil).
EmptyBytes == [kind |-> "empty", val |-> ""]
\* An empty slice result (gob sends a top-level empty slice as length 0).
EmptyList == "[]"
Nil == "nil"
NoErr == "nil"

Encodable(v) == v # "Unencodable"

\* Mutant: an empty slice is not written (no bytes), as if the zero value were
\* omitted at top level.
valueEncoderEmptyAsNil(v) ==
  IF ~Encodable(v) THEN [err |-> "gob: type not registered for interface", buf |-> NilBytes]
  ELSE IF v = EmptyList THEN [err |-> NoErr, buf |-> NilBytes]
  ELSE [err |-> NoErr, buf |-> [kind |-> "gob", val |-> v]]

valueEncoder(v) ==
  IF Encodable(v) THEN [err |-> NoErr, buf |-> [kind |-> "gob", val |-> v]]
  ELSE [err |-> "gob: type not registered for interface", buf |-> NilBytes]

\* Mutant: decoding into a value of the wrong type always fails.
valueDecodeWrongType(b) ==
  IF b.kind = "gob" THEN [err |-> "gob: type mismatch", out |-> Nil]
  ELSE IF b.kind \in {"nil", "empty"} THEN [err |-> "EOF", out |-> Nil]
  ELSE [err |-> "gob: decode error", out |-> Nil]

\* Mutant: every stored entry has expired (a zero time-to-live).
valueDecodeExpired(b) ==
  IF b.kind \in {"nil", "empty"} THEN [err |-> "EOF", out |-> Nil]
  ELSE [err |-> "expired", out |-> Nil]

valueDecode(b) ==
  IF b.kind = "gob" THEN [err |-> NoErr, out |-> b.val]
  ELSE IF b.kind \in {"nil", "empty"} THEN [err |-> "EOF", out |-> Nil]
  ELSE [err |-> "gob: decode error", out |-> Nil]

EmptyEntries == [k \in {} |-> NilBytes]

\* Mutant: a lookup positioned with a cursor: an absent key reads the
\* entry at some other key.
GetSeek(entries, k) ==
  IF k \in DOMAIN entries THEN entries[k]
  ELSE IF DOMAIN entries # {} THEN entries[CHOOSE x \in DOMAIN entries : TRUE]
  ELSE NilBytes

\* Bucket.Get
Get(entries, k) == IF k \in DOMAIN entries THEN entries[k] ELSE NilBytes

\* Mutant: a Put over an existing value leaves a mix of the old and new bytes.
PutMix(entries, k, b) ==
  [x \in DOMAIN entries \cup {k} |->
     IF x # k THEN entries[x]
     ELSE IF k \in DOMAIN entries THEN [kind |-> "mix", val |-> <<entries[k].val, b.val>>]
     ELSE b]

\* Mutant: a Put leaves only the key it writes.
PutDropsOthers(entries, k, b) == [x \in {k} |-> b]

\* Mutant: a Put over an existing key keeps the old bytes.
PutIfAbsent(entries, k, b) == IF k \in DOMAIN entries THEN entries ELSE entries @@ (k :> b)

\* Bucket.Put
Put(entries, k, b) == [x \in DOMAIN entries \cup {k} |-> IF x = k THEN b ELSE entries[x]]

\* ---------------------------------------------------------------------
\* Operations of the decorator: namespace path and cache key per method.
\* ---------------------------------------------------------------------
ListOps == {"Recitations", "Translations", "Languages", "Tafsiraat", "Chapters"}
CachedOps == ListOps \cup {"Chapter", "ChapterInfo", "Verses", "Verse",
                           "Juzzah", "VerseTafsir"}
Ops == CachedOps \cup {"Search"}

\* Search is the one method that delegates without touching the store.
\* Mutant: Search goes through the store like the other methods.
IsCachedAll(op) == TRUE

IsCached(op) == op # "Search"

\* Mutant: ChapterInfo reads and writes the Chapter bucket.
PathOfSharedChapter(op) ==
  CASE op = "Recitations" -> <<bucketRecitations>>
    [] op = "Translations" -> <<bucketTranslations>>
    [] op = "Languages" -> <<bucketLanguages>>
    [] op = "Tafsiraat" -> <<bucketTafsiraat>>
    [] op = "Chapters" -> <<bucketChapters>>
    [] op = "Chapter" -> <<bucketChapters, bucketChapter>>
    [] op = "ChapterInfo" -> <<bucketChapters, bucketChapter>>
    [] op = "Verses" -> <<bucketVerses>>
    [] op = "Verse" -> <<bucketVerses, bucketVerse>>
    [] op = "Juzzah" -> <<bucketJuzzah>>
    [] op = "VerseTafsir" -> <<bucketVerses, bucketVerseTafsir>>
    [] OTHER -> <<op>>

PathOf(op) ==
  CASE op = "Recitations" -> <<bucketRecitations>>
    [] op = "Translations" -> <<bucketTranslations>>
    [] op = "Languages" -> <<bucketLanguages>>
    [] op = "Tafsiraat" -> <<bucketTafsiraat>>
    [] op = "Chapters" -> <<bucketChapters>>
    [] op = "Chapter" -> <<bucketChapters, bucketChapter>>
    [] op = "ChapterInfo" -> <<bucketChapters, bucketChapterInfo>>
    [] op = "Verses" -> <<bucketVerses>>
    [] op = "Verse" -> <<bucketVerses, bucketVerse>>
    [] op = "Juzzah" -> <<bucketJuzzah>>
    [] op = "VerseTafsir" -> <<bucketVerses, bucketVerseTafsir>>
    [] OTHER -> <<op>>

\* Mutant: a call without a LanguageID option keys on "" rather than "0".
LangKeyUnset(c) ==
  IF \E i \in 1..Len(c.opts) : c.opts[i].fn = "LanguageID"
  THEN itoa(FoldOpts(ZeroReqOpt, c.opts).languageID) ELSE ""

CacheKeyUnsetDistinct(c, reg) ==
  CASE c.op \in ListOps -> LangKeyUnset(c)
    [] c.op \in {"Chapter", "ChapterInfo"} -> join(<<LangKeyUnset(c), itoa(c.id)>>)
    [] c.op = "Verses" -> VersesKey(FoldOpts(ZeroVersesReqOpt, c.opts), c.ch, reg)
    [] c.op = "Verse" -> join(<<itoa(c.ch), itoa(c.vid)>>)
    [] c.op = "Juzzah" -> "juzzah"
    [] c.op = "VerseTafsir" ->
         join(<<FoldOpts(ZeroVerseTafsirReqOpts, c.opts).Tafsir, itoa(c.ch), itoa(c.vid)>>)
    [] OTHER -> ""

CacheKey(c, reg) ==
  CASE c.op \in ListOps -> itoa(FoldOpts(ZeroReqOpt, c.opts).languageID)
    [] c.op \in {"Chapter", "ChapterInfo"} ->
         join(<<itoa(FoldOpts(ZeroReqOpt, c.opts).languageID), itoa(c.id)>>)
    [] c.op = "Verses" -> VersesKey(FoldOpts(ZeroVersesReqOpt, c.opts), c.ch, reg)
    [] c.op = "Verse" -> join(<<itoa(c.ch), itoa(c.vid)>>)
    [] c.op = "Juzzah" -> "juzzah"
    [] c.op = "VerseTafsir" ->
         join(<<FoldOpts(ZeroVerseTafsirReqOpts, c.opts).Tafsir, itoa(c.ch), itoa(c.vid)>>)
    [] OTHER -> ""

\* opt.key's gob encoding of versesReqOpt (strings, ints, []int) cannot fail.
VersesKeyOk(c) == TRUE

\* Whether the method goes through lookup/write at all.
Cacheable(c) == IsCached(c.op) /\ (c.op = "Verses" => VersesKeyOk(c))

\* Two calls with the same arguments: identical, or for Verses the same
\* chapter and options equal up to the order of translations and media
\* (the arguments versesReqOpt.key sorts before encoding).
SameArgs(x, c) ==
  \/ x = c
  \/ /\ x.op = "Verses" /\ c.op = "Verses" /\ x.ch = c.ch
     /\ EqualUpToOrder(FoldOpts(ZeroVersesReqOpt, x.opts), FoldOpts(ZeroVersesReqOpt, c.opts))

\* The identity under which a value is cached: method and derived key.
CallId(c, key) == <<c.op, key>>

\* ---------------------------------------------------------------------
\* Inputs: calls a caller can make, values the wrapped API can return.
\* ---------------------------------------------------------------------
MkCall(o, i, c, v, os) == [op |-> o, id |-> i, ch |-> c, vid |-> v, opts |-> os]

\* One call per method, plus: Recitations with no option, with
\* LanguageID(0) and with LanguageID(1); Verses with the same translations
\* in two orders.
Calls ==
  {MkCall("Recitations", 0, 0, 0, os) : os \in {<<>>, <<LanguageID(0)>>, <<LanguageID(1)>>}}
  \cup {MkCall(o, 0, 0, 0, <<>>) : o \in ListOps \ {"Recitations"}}
  \cup {MkCall(o, 1, 0, 0, <<>>) : o \in {"Chapter", "ChapterInfo"}}
  \cup {MkCall("Verses", 0, 2, 0, <<VersesTranslations(t)>>) : t \in {<<2, 1>>, <<1, 2>>}}
  \cup {MkCall("Verse", 0, 1, 1, <<>>), MkCall("Juzzah", 0, 0, 0, <<>>),
         MkCall("VerseTafsir", 0, 1, 1, <<>>), MkCall("Search", 0, 0, 0, <<>>)}

\* Methods whose result is a slice.
SliceOps == ListOps \cup {"Verses", "Juzzah", "VerseTafsir"}

\* Two distinct results per method; for a slice method one is the empty slice.
ApiVals(op) == {"V1", IF op \in SliceOps THEN EmptyList ELSE "V2"}
               \cup (IF op = "VerseTafsir" THEN {"Unencodable"} ELSE {})
ApiErr == "ErrUpstream"
\* What the wrapped call returns when its context is cancelled while pending.
CtxErr == "context canceled"

\* ---------------------------------------------------------------------
\* State
\* ---------------------------------------------------------------------
VARIABLES
  db,          \* bucket path -> (key -> bytes); DOMAIN db = existing buckets
  boot,        \* "running" | "ready" | "failed": the latest BoltCache call
  bootTodo,    \* top-level buckets the running BoltCache has not handled
  bootRuns,    \* number of BoltCache calls so far
  bootErr,     \* error returned by the latest BoltCache
  decorator,   \* QuranAPI value returned by the latest BoltCache
  dbBefore,    \* store when the latest BoltCache started
  prevReady,   \* whether the store had been initialised by a successful BoltCache
  ncalls,      \* decorated calls started
  pc,          \* per caller: "idle" | "lookup" | "fetch" | "write" | "put" | "done" | "panic"
  call,        \* per caller: current call
  cacheable,   \* per caller: call goes through the store
  hit,         \* per caller: call was served from the store
  fetched,     \* per caller: result of the wrapped call
  res,         \* per caller: result returned to the caller
  apiCalls,    \* per caller: wrapped invocations made by the current call
  lookups,     \* per caller: store reads made by the current call
  wrote,       \* per caller: "none" | "ok" | "fail" | "encfail"
  apiUpAtRet,  \* per caller: whether the wrapped call with the same arguments
               \* would succeed at the moment the decorated call returned
  succ,        \* set of <<call, value>> of every successful decorated call
  succBefore,  \* per caller: values earlier successful identical calls returned
  lastCommit,  \* CallId -> value of the latest committed cache write
  prior,       \* per caller: lastCommit of its CallId if no such call was in flight
  sent,        \* per caller: the options as the wrapped call receives them
  commits,     \* every <<CallId, value>> whose write committed
  lookupErr,   \* per caller: the error its db.View returned
  seen,        \* per caller: what its lookup found: "nil" | "gob" | "corrupt" | "none"
  cancelled,   \* per caller: its context was cancelled while the wrapped call was pending
  keysAtCancel, \* per caller: store entries present when it was cancelled
  active,      \* callers making decorated calls in this specification
  kin,         \* versesReqOpt.key inputs: two option lists and a chapter id
  kout,        \* the two keys derived from kin
  gobTypes,    \* gob's type registry of the current process (GobRegister)
  procGen,     \* number of the current process using the bolt file
  cacheID,     \* per caller: the key its call derived
  keysSeen,    \* every Verses key derived: [gen, opts, ch, key]
  committedArgs, \* every <<process, call, value>> whose write committed
  storedBefore, \* per caller: <<same process?, value>> committed by calls with the same arguments before it started
  menu         \* the calls the callers of this specification make

bootVars == <<db, boot, bootTodo, bootRuns, bootErr, decorator, dbBefore, prevReady>>
callVars == <<pc, call, cacheable, hit, fetched, res, apiCalls, lookups, wrote,
              apiUpAtRet, succ, succBefore, lastCommit, commits, prior, seen, sent, lookupErr,
              cancelled, keysAtCancel>>
keyVars == <<kin, kout>>
procVars == <<gobTypes, procGen, cacheID, keysSeen, committedArgs, storedBefore, menu>>
vars == <<bootVars, ncalls, callVars, keyVars, active, procVars>>

\* The identity under which a caller's current call caches its value.
CallIdOf(p) == CallId(call[p], cacheID[p])

NoKeyInput == [o1 |-> <<>>, o2 |-> <<>>, ch |-> 0]
NoKeys == <<"", "">>

NoCall == MkCall("none", 0, 0, 0, <<>>)
NoRes == [val |-> Nil, err |-> NoErr]

\* No decorated call has been made yet.
CallersIdle ==
  /\ pc = [p \in Procs |-> "idle"]
  /\ call = [p \in Procs |-> NoCall]
  /\ cacheable = [p \in Procs |-> FALSE]
  /\ hit = [p \in Procs |-> FALSE]
  /\ fetched = [p \in Procs |-> NoRes]
  /\ res = [p \in Procs |-> NoRes]
  /\ apiCalls = [p \in Procs |-> 0]
  /\ lookups = [p \in Procs |-> 0]
  /\ wrote = [p \in Procs |-> "none"]
  /\ apiUpAtRet = [p \in Procs |-> TRUE]
  /\ succ = {}
  /\ succBefore = [p \in Procs |-> {}]
  /\ lastCommit = [x \in {} |-> Nil]
  /\ prior = [p \in Procs |-> Nil]
  /\ seen = [p \in Procs |-> "none"]
  /\ sent = [p \in Procs |-> <<>>]
  /\ lookupErr = [p \in Procs |-> NoErr]
  /\ commits = {}
  /\ cancelled = [p \in Procs |-> FALSE]
  /\ keysAtCancel = [p \in Procs |-> {}]
  /\ gobTypes = <<>>
  /\ procGen = 1
  /\ cacheID = [p \in Procs |-> ""]
  /\ keysSeen = {}
  /\ committedArgs = {}
  /\ storedBefore = [p \in Procs |-> {}]
  /\ menu = Calls

\* The store as BoltCache leaves a fresh database: every bucket, no entry.
InitialisedDb == [x \in RequiredPaths |-> EmptyEntries]

\* Bytes in a bucket that are not a gob stream (written by another user of the
\* *bbolt.DB handle the caller passed to BoltCache).
CorruptBytes == [kind |-> "corrupt", val |-> "garbage"]

\* tx.DeleteBucket(path): removes the bucket and every bucket nested in it.
DeleteBucket(d, path) ==
  [x \in {y \in DOMAIN d : ~(Len(y) >= Len(path) /\ SubSeq(y, 1, Len(path)) = path)} |-> d[x]]

\* The buckets and keys changed: a top-level and a nested bucket; keys of a
\* list method, a nested-bucket method and a fixed-key method.
EnvDeleted == {<<bucketVerses>>, <<bucketChapters, bucketChapter>>}
EnvTargets == {c \in Calls : c.op \in {"Recitations", "Chapter", "Verse", "Juzzah"}}

\* The store after BoltCache followed by at most one change made through the
\* caller's own handle: a bucket deleted, or a corrupt value under a key a
\* decorated call uses (bytes that are not gob, or a zero-length value).
EnvDbs ==
  {InitialisedDb}
  \cup {DeleteBucket(InitialisedDb, path) : path \in EnvDeleted}
  \cup {[InitialisedDb EXCEPT ![PathOf(c.op)] = Put(@, CacheKey(c, <<>>), bad)]
         : c \in EnvTargets, bad \in {CorruptBytes, EmptyBytes}}

\* One caller using the decorator over such a store.
EnvInit ==
  /\ db \in EnvDbs
  /\ boot = "ready"
  /\ bootTodo = {}
  /\ bootRuns = 1
  /\ bootErr = NoErr
  /\ decorator = "boltCacheMiddleware"
  /\ dbBefore = [x \in {} |-> EmptyEntries]
  /\ prevReady = FALSE
  /\ ncalls = 0
  /\ CallersIdle
  /\ active = {"p1"}
  /\ kin = NoKeyInput
  /\ kout = NoKeys

\* State right after a successful BoltCache on a fresh store.
Init ==
  /\ db = InitialisedDb
  /\ boot = "ready"
  /\ bootTodo = {}
  /\ bootRuns = 1
  /\ bootErr = NoErr
  /\ decorator = "boltCacheMiddleware"
  /\ dbBefore = [x \in {} |-> EmptyEntries]
  /\ prevReady = FALSE
  /\ ncalls = 0
  /\ CallersIdle
  /\ active = Procs
  /\ kin = NoKeyInput
  /\ kout = NoKeys

\* ---------------------------------------------------------------------
\* BoltCache: one db.Update per entry of the buckets map, in Go's
\* unspecified map order. Inside it CreateBucketIfNotExists on the
\* top-level bucket, then on each nested bucket; any error rolls the
\* transaction back and BoltCache returns (nil, err). The transaction
\* itself can fail (read-only store, commit I/O error): txOk.
\* ---------------------------------------------------------------------
\* CreateBucketIfNotExists of nested bucket n inside top-level bucket b: an
\* existing plain key n makes it fail with ErrIncompatibleValue.
CreateNestedErr(b, n) ==
  IF <<b>> \in DOMAIN db /\ n \in DOMAIN db[<<b>>]
  THEN "ErrIncompatibleValue" ELSE NoErr

\* Mutant: CreateBucket instead of CreateBucketIfNotExists.
CreateBucketsErrStrict(b) ==
  IF <<b>> \in DOMAIN db THEN "ErrBucketExists"
  ELSE LET errs == {CreateNestedErr(b, BoltCacheBuckets[b][i]) : i \in 1..Len(BoltCacheBuckets[b])}
       IN IF errs \subseteq {NoErr} THEN NoErr ELSE "ErrIncompatibleValue"

CreateBucketsErr(b) ==
  LET errs == {CreateNestedErr(b, BoltCacheBuckets[b][i]) : i \in 1..Len(BoltCacheBuckets[b])}
  IN IF errs \subseteq {NoErr} THEN NoErr ELSE "ErrIncompatibleValue"

BucketsCreated(b) ==
  LET newPaths == {<<b>>} \cup {<<b, BoltCacheBuckets[b][i]>> : i \in 1..Len(BoltCacheBuckets[b])}
  IN [x \in DOMAIN db \cup newPaths |-> IF x \in DOMAIN db THEN db[x] ELSE EmptyEntries]

\* Mutant: an error of one bucket's transaction is skipped, the loop goes on.
BoltCacheStepContinue ==
  /\ boot = "running"
  /\ \E b \in bootTodo, txOk \in BOOLEAN :
       LET err == IF CreateBucketsErr(b) # NoErr THEN CreateBucketsErr(b)
                  ELSE IF ~txOk THEN "ErrTx" ELSE NoErr
       IN IF err # NoErr
          THEN /\ bootErr' = err
               /\ bootTodo' = bootTodo \ {b}
               /\ IF bootTodo' = {}
                  THEN /\ boot' = "ready"
                       /\ decorator' = "boltCacheMiddleware"
                  ELSE UNCHANGED <<boot, decorator>>
               /\ UNCHANGED db
          ELSE /\ db' = BucketsCreated(b)
               /\ bootTodo' = bootTodo \ {b}
               /\ IF bootTodo' = {}
                  THEN /\ boot' = "ready"
                       /\ decorator' = "boltCacheMiddleware"
                  ELSE UNCHANGED <<boot, decorator>>
               /\ UNCHANGED bootErr
  /\ UNCHANGED <<bootRuns, dbBefore, prevReady, ncalls, callVars, keyVars, active, procVars>>

\* Mutant: all of BoltCache is one transaction; a failure undoes every bucket.
BoltCacheStepAtomic ==
  /\ boot = "running"
  /\ \E b \in bootTodo, txOk \in BOOLEAN :
       LET err == IF CreateBucketsErr(b) # NoErr THEN CreateBucketsErr(b)
                  ELSE IF ~txOk THEN "ErrTx" ELSE NoErr
       IN IF err # NoErr
          THEN /\ boot' = "failed"
               /\ bootErr' = err
               /\ decorator' = Nil
               /\ bootTodo' = {}
               /\ db' = dbBefore
          ELSE /\ db' = BucketsCreated(b)
               /\ bootTodo' = bootTodo \ {b}
               /\ IF bootTodo' = {}
                  THEN /\ boot' = "ready"
                       /\ decorator' = "boltCacheMiddleware"
                  ELSE UNCHANGED <<boot, decorator>>
               /\ UNCHANGED bootErr
  /\ UNCHANGED <<bootRuns, dbBefore, prevReady, ncalls, callVars, keyVars, active, procVars>>

BoltCacheStep ==
  /\ boot = "running"
  /\ \E b \in bootTodo, txOk \in BOOLEAN :
       LET err == IF CreateBucketsErr(b) # NoErr THEN CreateBucketsErr(b)
                  ELSE IF ~txOk THEN "ErrTx" ELSE NoErr
       IN IF err # NoErr
          THEN /\ boot' = "failed"
               /\ bootErr' = err
               /\ decorator' = Nil
               /\ bootTodo' = {}
               /\ UNCHANGED db
          ELSE /\ db' = BucketsCreated(b)
               /\ bootTodo' = bootTodo \ {b}
               /\ IF bootTodo' = {}
                  THEN /\ boot' = "ready"
                       /\ decorator' = "boltCacheMiddleware"
                  ELSE UNCHANGED <<boot, decorator>>
               /\ UNCHANGED bootErr
  /\ UNCHANGED <<bootRuns, dbBefore, prevReady, ncalls, callVars, keyVars, active, procVars>>

\* A later BoltCache call against the same store (no decorated call in flight).
BoltCacheAgain ==
  /\ boot \in {"ready", "failed"}
  /\ bootRuns < MaxBoots
  /\ \A p \in Procs : pc[p] \in {"idle", "done"}
  /\ boot' = "running"
  /\ bootTodo' = DOMAIN BoltCacheBuckets
  /\ bootRuns' = bootRuns + 1
  /\ bootErr' = NoErr
  /\ dbBefore' = db
  /\ prevReady' = (boot = "ready")
  /\ UNCHANGED <<db, decorator, ncalls, callVars, keyVars, active, procVars>>

\* versesReqOpt.key runs sort.Ints on opt.Media and opt.Translations. These
\* share their backing arrays with the slices captured by the caller's last
\* VersesMedia / VersesTranslations options, so those slices end up sorted and
\* reqOpts, passed on to next.Verses, now carry the sorted slices.
LastOf(os, f) == IF \E i \in 1..Len(os) : os[i].fn = f
                 THEN CHOOSE i \in 1..Len(os) : os[i].fn = f /\ \A j \in 1..Len(os) : os[j].fn = f => j <= i
                 ELSE 0

SortedInPlace(os) ==
  [i \in 1..Len(os) |->
     IF os[i].fn \in {"VersesMedia", "VersesTranslations"} /\ i = LastOf(os, os[i].fn)
     THEN [os[i] EXCEPT !.arg = SortInts(@)]
     ELSE os[i]]

\* ---------------------------------------------------------------------
\* A decorated call: fold the options and derive the key. Search and a
\* failed Verses key go straight to the wrapped API. The Verses key is a
\* gob stream: deriving it registers its types in the process's gob
\* registry (under gob's own lock, released before the lookup).
\* ---------------------------------------------------------------------
Invoke(p) ==
  /\ boot = "ready"
  /\ decorator # Nil
  /\ p \in active
  /\ pc[p] \in {"idle", "done"}
  /\ ncalls < MaxCalls
  /\ \E c \in menu :
       LET reg == IF c.op = "Verses" THEN GobRegister(gobTypes, VersesKeyTypes) ELSE gobTypes
           key == CacheKey(c, reg)
       IN
       /\ gobTypes' = reg
       /\ cacheID' = [cacheID EXCEPT ![p] = IF Cacheable(c) THEN key ELSE ""]
       /\ keysSeen' = IF c.op = "Verses"
                      THEN keysSeen \cup {[gen |-> procGen, opts |-> c.opts, ch |-> c.ch, key |-> key]}
                      ELSE keysSeen
       /\ storedBefore' = [storedBefore EXCEPT ![p] = {}]
       /\ ncalls' = ncalls + 1
       /\ call' = [call EXCEPT ![p] = c]
       /\ cacheable' = [cacheable EXCEPT ![p] = Cacheable(c)]
       /\ apiCalls' = [apiCalls EXCEPT ![p] = 0]
       /\ wrote' = [wrote EXCEPT ![p] = "none"]
       /\ fetched' = [fetched EXCEPT ![p] = NoRes]
       /\ cancelled' = [cancelled EXCEPT ![p] = FALSE]
       /\ lookupErr' = [lookupErr EXCEPT ![p] = NoErr]
       /\ sent' = [sent EXCEPT ![p] = IF c.op = "Verses" THEN SortedInPlace(c.opts) ELSE c.opts]
       /\ keysAtCancel' = [keysAtCancel EXCEPT ![p] = {}]
       /\ seen' = [seen EXCEPT ![p] = "none"]
       /\ succBefore' = [succBefore EXCEPT ![p] = {x[2] : x \in {y \in succ : y[1] = c}}]
       /\ prior' = [prior EXCEPT ![p] = Nil]
       /\ hit' = [hit EXCEPT ![p] = FALSE]
       /\ lookups' = [lookups EXCEPT ![p] = 0]
       /\ pc' = [pc EXCEPT ![p] = IF Cacheable(c) THEN "lookup" ELSE "fetch"]
  /\ UNCHANGED <<bootVars, res, apiUpAtRet, succ, lastCommit, commits, keyVars, active,
                 procGen, committedArgs, menu>>

\* The db.View reading the derived key in the method's bucket (a missing
\* bucket is a nil *Bucket and Get on it panics): a value that decodes is
\* a hit, anything else a miss.
Lookup(p) ==
  /\ pc[p] = "lookup"
  /\ LET c == call[p]
         key == cacheID[p]
         path == PathOf(c.op)
     IN
     /\ lookups' = [lookups EXCEPT ![p] = 1]
     /\ lookupErr' = [lookupErr EXCEPT ![p] =
                        IF path \in DOMAIN db THEN valueDecode(Get(db[path], key)).err ELSE NoErr]
     /\ seen' = [seen EXCEPT ![p] =
                   IF path \notin DOMAIN db THEN "none" ELSE Get(db[path], key).kind]
     /\ prior' = [prior EXCEPT ![p] =
                    IF CallIdOf(p) \in DOMAIN lastCommit THEN lastCommit[CallIdOf(p)] ELSE Nil]
     /\ storedBefore' = [storedBefore EXCEPT ![p] =
                           {<<x[1] = procGen, x[3]>> : x \in {y \in committedArgs : SameArgs(y[2], c)}}]
     /\ IF path \notin DOMAIN db
        THEN /\ pc' = [pc EXCEPT ![p] = "panic"]
             /\ UNCHANGED <<hit, res, apiUpAtRet, succ>>
        ELSE LET d == valueDecode(Get(db[path], key)) IN
             IF d.err = NoErr
             THEN /\ pc' = [pc EXCEPT ![p] = "done"]
                  /\ hit' = [hit EXCEPT ![p] = TRUE]
                  /\ res' = [res EXCEPT ![p] = [val |-> d.out, err |-> NoErr]]
                  /\ \E up \in BOOLEAN : apiUpAtRet' = [apiUpAtRet EXCEPT ![p] = up]
                  /\ succ' = succ \cup {<<c, d.out>>}
             ELSE /\ pc' = [pc EXCEPT ![p] = "fetch"]
                  /\ UNCHANGED <<hit, res, apiUpAtRet, succ>>
  /\ UNCHANGED <<bootVars, ncalls, call, cacheable, fetched, apiCalls, wrote, succBefore,
                 lastCommit, commits, sent, cancelled, keysAtCancel, keyVars, active,
                 gobTypes, procGen, cacheID, keysSeen, committedArgs, menu>>

\* What the wrapped call can return: a value, an error, and, once the
\* caller has cancelled the context, also the cancellation error. The
\* decorator never reads ctx; it only passes it on.
FetchOutcomes(p) ==
  {[val |-> v, err |-> NoErr] : v \in ApiVals(call[p].op)}
  \cup {[val |-> Nil, err |-> ApiErr]}
  \cup (IF cancelled[p] THEN {[val |-> Nil, err |-> CtxErr]} ELSE {})

\* The wrapped call. On error the decorator returns (zero, err); the
\* pass-through path returns the wrapped result as is.
\* Mutant: the wrapped error is dropped on a miss.
FetchErrSwallowed(p) ==
  /\ pc[p] = "fetch"
  /\ apiCalls' = [apiCalls EXCEPT ![p] = @ + 1]
  /\ \E r \in FetchOutcomes(p) :
       /\ fetched' = [fetched EXCEPT ![p] = r]
       /\ IF r.err = NoErr /\ cacheable[p]
          THEN /\ pc' = [pc EXCEPT ![p] = "write"]
               /\ UNCHANGED <<res, apiUpAtRet, succ>>
          ELSE /\ pc' = [pc EXCEPT ![p] = "done"]
               /\ res' = [res EXCEPT ![p] =
                            IF cacheable[p] THEN [val |-> Nil, err |-> NoErr] ELSE r]
               /\ apiUpAtRet' = [apiUpAtRet EXCEPT ![p] = (r.err = NoErr)]
               /\ succ' = IF r.err = NoErr THEN succ \cup {<<call[p], r.val>>} ELSE succ
  /\ UNCHANGED <<bootVars, ncalls, call, cacheable, hit, lookups, wrote,
                 succBefore, lastCommit, commits, prior, seen, sent, lookupErr, cancelled, keysAtCancel,
                 keyVars, active, procVars>>

\* Mutant: the wrapped error is replaced by the decorator's own.
FetchErrWrapped(p) ==
  /\ pc[p] = "fetch"
  /\ apiCalls' = [apiCalls EXCEPT ![p] = @ + 1]
  /\ \E r \in FetchOutcomes(p) :
       /\ fetched' = [fetched EXCEPT ![p] = r]
       /\ IF r.err = NoErr /\ cacheable[p]
          THEN /\ pc' = [pc EXCEPT ![p] = "write"]
               /\ UNCHANGED <<res, apiUpAtRet, succ>>
          ELSE /\ pc' = [pc EXCEPT ![p] = "done"]
               /\ res' = [res EXCEPT ![p] =
                            IF cacheable[p] THEN [val |-> Nil, err |-> "ErrCacheFetch"] ELSE r]
               /\ apiUpAtRet' = [apiUpAtRet EXCEPT ![p] = (r.err = NoErr)]
               /\ succ' = IF r.err = NoErr THEN succ \cup {<<call[p], r.val>>} ELSE succ
  /\ UNCHANGED <<bootVars, ncalls, call, cacheable, hit, lookups, wrote,
                 succBefore, lastCommit, commits, prior, seen, sent, lookupErr, cancelled, keysAtCancel,
                 keyVars, active, procVars>>

\* Mutant: a failed wrapped call is retried once.
FetchRetriesOnError(p) ==
  /\ pc[p] = "fetch"
  /\ apiCalls' = [apiCalls EXCEPT ![p] = @ + 1]
  /\ \E r \in FetchOutcomes(p) :
       /\ fetched' = [fetched EXCEPT ![p] = r]
       /\ IF r.err # NoErr /\ apiCalls[p] = 0
          THEN /\ pc' = pc
               /\ UNCHANGED <<res, apiUpAtRet, succ>>
          ELSE IF r.err = NoErr /\ cacheable[p]
          THEN /\ pc' = [pc EXCEPT ![p] = "write"]
               /\ UNCHANGED <<res, apiUpAtRet, succ>>
          ELSE /\ pc' = [pc EXCEPT ![p] = "done"]
               /\ res' = [res EXCEPT ![p] =
                            IF cacheable[p] THEN [val |-> Nil, err |-> r.err] ELSE r]
               /\ apiUpAtRet' = [apiUpAtRet EXCEPT ![p] = (r.err = NoErr)]
               /\ succ' = IF r.err = NoErr THEN succ \cup {<<call[p], r.val>>} ELSE succ
  /\ UNCHANGED <<bootVars, ncalls, call, cacheable, hit, lookups, wrote,
                 succBefore, lastCommit, commits, prior, seen, sent, lookupErr, cancelled, keysAtCancel,
                 keyVars, active, procVars>>

\* Mutant: a cancellation error from the wrapped call is not treated as a
\* failure: the decorator goes on to cache the zero result.
FetchCtxErrCached(p) ==
  /\ pc[p] = "fetch"
  /\ apiCalls' = [apiCalls EXCEPT ![p] = @ + 1]
  /\ \E r \in FetchOutcomes(p) :
       /\ fetched' = [fetched EXCEPT ![p] = r]
       /\ IF r.err \in {NoErr, CtxErr} /\ cacheable[p]
          THEN /\ pc' = [pc EXCEPT ![p] = "write"]
               /\ UNCHANGED <<res, apiUpAtRet, succ>>
          ELSE /\ pc' = [pc EXCEPT ![p] = "done"]
               /\ res' = [res EXCEPT ![p] =
                            IF cacheable[p] THEN [val |-> Nil, err |-> r.err] ELSE r]
               /\ apiUpAtRet' = [apiUpAtRet EXCEPT ![p] = (r.err = NoErr)]
               /\ succ' = IF r.err = NoErr THEN succ \cup {<<call[p], r.val>>} ELSE succ
  /\ UNCHANGED <<bootVars, ncalls, call, cacheable, hit, lookups, wrote,
                 succBefore, lastCommit, commits, prior, seen, sent, lookupErr, cancelled, keysAtCancel,
                 keyVars, active, procVars>>

Fetch(p) ==
  /\ pc[p] = "fetch"
  /\ apiCalls' = [apiCalls EXCEPT ![p] = @ + 1]
  /\ \E r \in FetchOutcomes(p) :
       /\ fetched' = [fetched EXCEPT ![p] = r]
       /\ IF r.err = NoErr /\ cacheable[p]
          THEN /\ pc' = [pc EXCEPT ![p] = "write"]
               /\ UNCHANGED <<res, apiUpAtRet, succ>>
          ELSE /\ pc' = [pc EXCEPT ![p] = "done"]
               /\ res' = [res EXCEPT ![p] =
                            IF cacheable[p] THEN [val |-> Nil, err |-> r.err] ELSE r]
               /\ apiUpAtRet' = [apiUpAtRet EXCEPT ![p] = (r.err = NoErr)]
               /\ succ' = IF r.err = NoErr THEN succ \cup {<<call[p], r.val>>} ELSE succ
  /\ UNCHANGED <<bootVars, ncalls, call, cacheable, hit, lookups, wrote,
                 succBefore, lastCommit, commits, prior, seen, sent, lookupErr, cancelled, keysAtCancel,
                 keyVars, active, procVars>>

\* The best-effort db.Update on the open, writable store. Its write
\* transaction holds bbolt's writer lock from begin to commit, so one
\* Update runs at a time (lookups' read transactions do not wait).
\* First step: encode the value, registering its types in the process's
\* gob registry (under gob's own lock, released right after); an encoding
\* error ends the Update before the bucket is looked up, and the Update
\* error is discarded: the fetched value is returned.
WriteEncode(p) ==
  /\ pc[p] = "write"
  /\ \A q \in Procs : pc[q] # "put"
  /\ LET c == call[p]
         enc == valueEncoder(fetched[p].val)
     IN /\ gobTypes' = GobRegister(gobTypes, GobValueTypes(c.op))
        /\ IF enc.err = NoErr
           THEN /\ pc' = [pc EXCEPT ![p] = "put"]
                /\ UNCHANGED <<res, apiUpAtRet, succ, wrote>>
           ELSE /\ pc' = [pc EXCEPT ![p] = "done"]
                /\ wrote' = [wrote EXCEPT ![p] = "encfail"]
                /\ res' = [res EXCEPT ![p] = [val |-> fetched[p].val, err |-> NoErr]]
                /\ apiUpAtRet' = [apiUpAtRet EXCEPT ![p] = TRUE]
                /\ succ' = succ \cup {<<c, fetched[p].val>>}
  /\ UNCHANGED <<bootVars, ncalls, call, cacheable, hit, fetched, apiCalls, lookups,
                 succBefore, lastCommit, commits, prior, seen, sent, lookupErr, cancelled,
                 keysAtCancel, keyVars, active, procGen, cacheID, keysSeen, committedArgs,
                 storedBefore, menu>>

\* Mutant: the db.Update error is returned to the caller.
WriteErrPropagated(p) ==
  /\ pc[p] = "put"
  /\ \E tx \in {"ok", "commit"} :
       LET c == call[p]
           path == PathOf(c.op)
           enc == valueEncoder(fetched[p].val)
       IN /\ IF path \notin DOMAIN db
             THEN /\ pc' = [pc EXCEPT ![p] = "panic"]
                  /\ UNCHANGED <<db, res, apiUpAtRet, succ, wrote, lastCommit, commits, committedArgs>>
             ELSE /\ IF tx = "ok"
                     THEN /\ db' = [db EXCEPT ![path] = Put(@, cacheID[p], enc.buf)]
                          /\ wrote' = [wrote EXCEPT ![p] = "ok"]
                          /\ commits' = commits \cup {<<CallIdOf(p), fetched[p].val>>}
                          /\ committedArgs' = committedArgs \cup {<<procGen, c, fetched[p].val>>}
                          /\ lastCommit' = [x \in DOMAIN lastCommit \cup {CallIdOf(p)} |->
                                              IF x = CallIdOf(p) THEN fetched[p].val
                                              ELSE lastCommit[x]]
                     ELSE /\ wrote' = [wrote EXCEPT ![p] = "fail"]
                          /\ UNCHANGED <<db, lastCommit, commits, committedArgs>>
                  /\ pc' = [pc EXCEPT ![p] = "done"]
                  /\ res' = [res EXCEPT ![p] = IF tx = "ok" THEN [val |-> fetched[p].val, err |-> NoErr]
                                  ELSE [val |-> Nil, err |-> "ErrTx"]]
                  /\ apiUpAtRet' = [apiUpAtRet EXCEPT ![p] = TRUE]
                  /\ succ' = succ \cup {<<c, fetched[p].val>>}
  /\ UNCHANGED <<boot, bootTodo, bootRuns, bootErr, decorator, dbBefore, prevReady,
                 ncalls, call, cacheable, hit, fetched, apiCalls, lookups,
                 succBefore, prior, seen, sent, lookupErr, cancelled, keysAtCancel, keyVars, active,
                 gobTypes, procGen, cacheID, keysSeen, storedBefore, menu>>

\* Mutant: the write deletes and re-creates the method's bucket.
WriteRecreatesBucket(p) ==
  /\ pc[p] = "put"
  /\ \E tx \in {"ok", "commit"} :
       LET c == call[p]
           path == PathOf(c.op)
           enc == valueEncoder(fetched[p].val)
       IN /\ IF path \notin DOMAIN db
             THEN /\ pc' = [pc EXCEPT ![p] = "panic"]
                  /\ UNCHANGED <<db, res, apiUpAtRet, succ, wrote, lastCommit, commits, committedArgs>>
             ELSE /\ IF tx = "ok"
                     THEN /\ db' = DeleteBucket(db, path) @@ (path :> Put(EmptyEntries, cacheID[p], enc.buf))
                          /\ wrote' = [wrote EXCEPT ![p] = "ok"]
                          /\ commits' = commits \cup {<<CallIdOf(p), fetched[p].val>>}
                          /\ committedArgs' = committedArgs \cup {<<procGen, c, fetched[p].val>>}
                          /\ lastCommit' = [x \in DOMAIN lastCommit \cup {CallIdOf(p)} |->
                                              IF x = CallIdOf(p) THEN fetched[p].val
                                              ELSE lastCommit[x]]
                     ELSE /\ wrote' = [wrote EXCEPT ![p] = "fail"]
                          /\ UNCHANGED <<db, lastCommit, commits, committedArgs>>
                  /\ pc' = [pc EXCEPT ![p] = "done"]
                  /\ res' = [res EXCEPT ![p] = [val |-> fetched[p].val, err |-> NoErr]]
                  /\ apiUpAtRet' = [apiUpAtRet EXCEPT ![p] = TRUE]
                  /\ succ' = succ \cup {<<c, fetched[p].val>>}
  /\ UNCHANGED <<boot, bootTodo, bootRuns, bootErr, decorator, dbBefore, prevReady,
                 ncalls, call, cacheable, hit, fetched, apiCalls, lookups,
                 succBefore, prior, seen, sent, lookupErr, cancelled, keysAtCancel, keyVars, active,
                 gobTypes, procGen, cacheID, keysSeen, storedBefore, menu>>

\* Mutant: the write encodes the (zero) lookup target out instead of the
\* wrapped call's result.
WriteEncodesOut(p) ==
  /\ pc[p] = "put"
  /\ \E tx \in {"ok", "commit"} :
       LET c == call[p]
           path == PathOf(c.op)
           enc == valueEncoder(Nil)
       IN /\ IF path \notin DOMAIN db
             THEN /\ pc' = [pc EXCEPT ![p] = "panic"]
                  /\ UNCHANGED <<db, res, apiUpAtRet, succ, wrote, lastCommit, commits, committedArgs>>
             ELSE /\ IF tx = "ok" /\ enc.err = NoErr
                     THEN /\ db' = [db EXCEPT ![path] = Put(@, cacheID[p], enc.buf)]
                          /\ wrote' = [wrote EXCEPT ![p] = "ok"]
                          /\ commits' = commits \cup {<<CallIdOf(p), fetched[p].val>>}
                          /\ committedArgs' = committedArgs \cup {<<procGen, c, fetched[p].val>>}
                          /\ lastCommit' = [x \in DOMAIN lastCommit \cup {CallIdOf(p)} |->
                                              IF x = CallIdOf(p) THEN fetched[p].val
                                              ELSE lastCommit[x]]
                     ELSE /\ wrote' = [wrote EXCEPT ![p] = "fail"]
                          /\ UNCHANGED <<db, lastCommit, commits, committedArgs>>
                  /\ pc' = [pc EXCEPT ![p] = "done"]
                  /\ res' = [res EXCEPT ![p] = [val |-> fetched[p].val, err |-> NoErr]]
                  /\ apiUpAtRet' = [apiUpAtRet EXCEPT ![p] = TRUE]
                  /\ succ' = succ \cup {<<c, fetched[p].val>>}
  /\ UNCHANGED <<boot, bootTodo, bootRuns, bootErr, decorator, dbBefore, prevReady,
                 ncalls, call, cacheable, hit, fetched, apiCalls, lookups,
                 succBefore, prior, seen, sent, lookupErr, cancelled, keysAtCancel, keyVars, active,
                 gobTypes, procGen, cacheID, keysSeen, storedBefore, menu>>

\* Second step: tx.Bucket(..).Bucket(..).Put of the encoded value under the
\* derived key, which panics on a missing bucket; then the commit, which
\* can still fail (tx = "commit", an I/O error). The Update error is
\* discarded and the fetched value is returned.
Write(p) ==
  /\ pc[p] = "put"
  /\ \E tx \in {"ok", "commit"} :
       LET c == call[p]
           path == PathOf(c.op)
           enc == valueEncoder(fetched[p].val)
       IN /\ IF path \notin DOMAIN db
             THEN /\ pc' = [pc EXCEPT ![p] = "panic"]
                  /\ UNCHANGED <<db, res, apiUpAtRet, succ, wrote, lastCommit, commits, committedArgs>>
             ELSE /\ IF tx = "ok"
                     THEN /\ db' = [db EXCEPT ![path] = Put(@, cacheID[p], enc.buf)]
                          /\ wrote' = [wrote EXCEPT ![p] = "ok"]
                          /\ commits' = commits \cup {<<CallIdOf(p), fetched[p].val>>}
                          /\ committedArgs' = committedArgs \cup {<<procGen, c, fetched[p].val>>}
                          /\ lastCommit' = [x \in DOMAIN lastCommit \cup {CallIdOf(p)} |->
                                              IF x = CallIdOf(p) THEN fetched[p].val
                                              ELSE lastCommit[x]]
                     ELSE /\ wrote' = [wrote EXCEPT ![p] = "fail"]
                          /\ UNCHANGED <<db, lastCommit, commits, committedArgs>>
                  /\ pc' = [pc EXCEPT ![p] = "done"]
                  /\ res' = [res EXCEPT ![p] = [val |-> fetched[p].val, err |-> NoErr]]
                  /\ apiUpAtRet' = [apiUpAtRet EXCEPT ![p] = TRUE]
                  /\ succ' = succ \cup {<<c, fetched[p].val>>}
  /\ UNCHANGED <<boot, bootTodo, bootRuns, bootErr, decorator, dbBefore, prevReady,
                 ncalls, call, cacheable, hit, fetched, apiCalls, lookups,
                 succBefore, prior, seen, sent, lookupErr, cancelled, keysAtCancel, keyVars, active,
                 gobTypes, procGen, cacheID, keysSeen, storedBefore, menu>>

\* Every entry of the store, as <<bucket path, key>>.
StoreKeys == UNION {{<<path, k>> : k \in DOMAIN db[path]} : path \in DOMAIN db}

\* The caller cancels the call's context while the wrapped call is pending.
Cancel(p) ==
  /\ pc[p] = "fetch"
  /\ ~cancelled[p]
  /\ cancelled' = [cancelled EXCEPT ![p] = TRUE]
  /\ keysAtCancel' = [keysAtCancel EXCEPT ![p] = StoreKeys]
  /\ UNCHANGED <<bootVars, ncalls, pc, call, cacheable, hit, fetched, res, apiCalls,
                 lookups, wrote, apiUpAtRet, succ, succBefore, lastCommit, commits, prior, seen,
                 sent, lookupErr, keyVars, active, procVars>>

Next ==
  \/ \E p \in Procs : Invoke(p)
  \/ \E p \in Procs : Lookup(p)
  \/ \E p \in Procs : Fetch(p)
  \/ \E p \in Procs : WriteEncode(p)
  \/ \E p \in Procs : Write(p)

Spec == Init /\ [][Next]_vars

\* ---------------------------------------------------------------------
\* The codec on VerseTafsir results, field by field. encoding/json
\* decodes the verse_key field (interface{}) to nil, string, float64,
\* bool, []interface{} or map[string]interface{}. gob sends an interface
\* value with its concrete type's registered name; only the basic types
\* gob registers itself have one, so the last two fail to encode.
\* ---------------------------------------------------------------------
JSONIfaceTypes == {"nil", "string", "float64", "bool", "[]interface {}", "map[string]interface {}"}
GobRegistered == {"nil", "string", "float64", "bool"}

VerseTafsirEntity(id, t) == [ID |-> id, VerseKey |-> t]
VerseTafsirEntities == {VerseTafsirEntity(id, t) : id \in {1, 2}, t \in JSONIfaceTypes}

\* []VerseTafsir results of up to two entries.
VerseTafsirResults ==
  {<<>>} \cup {<<e>> : e \in VerseTafsirEntities}
  \cup {<<e1, e2>> : e1 \in VerseTafsirEntities, e2 \in VerseTafsirEntities}

\* valueEncoder(v) for v a []VerseTafsir.
valueEncoderVerseTafsir(v) ==
  IF \A i \in 1..Len(v) : v[i].VerseKey \in GobRegistered
  THEN [err |-> NoErr, buf |-> [kind |-> "gob", val |-> v]]
  ELSE [err |-> "gob: type not registered for interface: " \o
                CHOOSE t \in {v[i].VerseKey : i \in 1..Len(v)} : t \notin GobRegistered,
        buf |-> NilBytes]

\* valueDecode(b, &out) with out a []VerseTafsir (an absent buffer is EOF).
valueDecodeVerseTafsir(b) ==
  IF b.kind = "gob" THEN [err |-> NoErr, out |-> b.val]
  ELSE [err |-> "EOF", out |-> <<>>]

CodecInit ==
  /\ kin \in VerseTafsirResults
  /\ kout = NoKeys
  /\ db = InitialisedDb
  /\ boot = "ready"
  /\ bootTodo = {}
  /\ bootRuns = 1
  /\ bootErr = NoErr
  /\ decorator = "boltCacheMiddleware"
  /\ dbBefore = [x \in {} |-> EmptyEntries]
  /\ prevReady = FALSE
  /\ ncalls = 0
  /\ CallersIdle
  /\ active = {}

\* Encode the value, then decode what the encoder produced.
RoundTrip ==
  /\ kout = NoKeys
  /\ LET e == valueEncoderVerseTafsir(kin) IN
     kout' = <<e.err, valueDecodeVerseTafsir(e.buf)>>
  /\ UNCHANGED <<bootVars, ncalls, callVars, kin, active, procVars>>

CodecSpec == CodecInit /\ [][RoundTrip]_vars

\* Decorated calls over a store another user of the handle has changed.
EnvSpec == EnvInit /\ [][Next]_vars

\* Decorated calls whose callers may cancel their context.
CancelNext == Next \/ \E p \in Procs : Cancel(p)

CancelSpec == Init /\ [][CancelNext]_vars

\* What p1 calls next: c again and Chapter(1); after a Verses call also
\* Verses with the translations in the other order.
ChapterCall == MkCall("Chapter", 1, 0, 0, <<>>)

OverlapMenu(c) ==
  {c, ChapterCall} \cup (IF c.op = "Verses" THEN {x \in Calls : x.op = "Verses"} ELSE {})

\* A reachable state: in the first process, p1's call c missed, fetched v,
\* committed it and returned; p2's identical call missed before that commit
\* and is still waiting on the wrapped API. The gob registry holds the key
\* types (for Verses, derived by the first lookup) and then v's types.
\* Only p1 makes new calls, drawn from m.
OverlapState(c, v, m) ==
  LET reg == GobRegister(IF c.op = "Verses" THEN VersesKeyTypes ELSE <<>>, GobValueTypes(c.op))
      key == CacheKey(c, reg)
      opts == IF c.op = "Verses" THEN SortedInPlace(c.opts) ELSE c.opts
  IN
  /\ db = [InitialisedDb EXCEPT ![PathOf(c.op)] = Put(@, key, valueEncoder(v).buf)]
  /\ boot = "ready"
  /\ bootTodo = {}
  /\ bootRuns = 1
  /\ bootErr = NoErr
  /\ decorator = "boltCacheMiddleware"
  /\ dbBefore = [x \in {} |-> EmptyEntries]
  /\ prevReady = FALSE
  /\ ncalls = 0
  /\ pc = [p \in Procs |-> IF p = "p1" THEN "done" ELSE "fetch"]
  /\ call = [p \in Procs |-> c]
  /\ cacheable = [p \in Procs |-> TRUE]
  /\ hit = [p \in Procs |-> FALSE]
  /\ fetched = [p \in Procs |-> IF p = "p1" THEN [val |-> v, err |-> NoErr] ELSE NoRes]
  /\ res = [p \in Procs |-> IF p = "p1" THEN [val |-> v, err |-> NoErr] ELSE NoRes]
  /\ apiCalls = [p \in Procs |-> IF p = "p1" THEN 1 ELSE 0]
  /\ lookups = [p \in Procs |-> 1]
  /\ wrote = [p \in Procs |-> IF p = "p1" THEN "ok" ELSE "none"]
  /\ apiUpAtRet = [p \in Procs |-> TRUE]
  /\ succ = {<<c, v>>}
  /\ succBefore = [p \in Procs |-> {}]
  /\ lastCommit = (CallId(c, key) :> v)
  /\ commits = {<<CallId(c, key), v>>}
  /\ prior = [p \in Procs |-> Nil]
  /\ seen = [p \in Procs |-> "nil"]
  /\ sent = [p \in Procs |-> opts]
  /\ lookupErr = [p \in Procs |-> "EOF"]
  /\ cancelled = [p \in Procs |-> FALSE]
  /\ keysAtCancel = [p \in Procs |-> {}]
  /\ active = {"p1"}
  /\ kin = NoKeyInput
  /\ kout = NoKeys
  /\ gobTypes = reg
  /\ procGen = 1
  /\ cacheID = [p \in Procs |-> key]
  /\ keysSeen = IF c.op = "Verses"
                THEN {[gen |-> 1, opts |-> c.opts, ch |-> c.ch, key |-> key]} ELSE {}
  /\ committedArgs = {<<1, c, v>>}
  /\ storedBefore = [p \in Procs |-> {}]
  /\ menu = m

\* The Juzzah instance, p1 having committed "V1".
JuzzahCall == MkCall("Juzzah", 0, 0, 0, <<>>)

StaleInit == OverlapState(JuzzahCall, "V1", Calls)

StaleSpec == StaleInit /\ [][Next]_vars

\* The program is started again on the same bolt file: a new process, with
\* an empty gob registry, whose BoltCache finds every bucket and succeeds.
\* No decorated call is in flight.
Restart ==
  /\ procGen < MaxProcs
  /\ boot = "ready"
  /\ \A p \in Procs : pc[p] \in {"idle", "done"}
  /\ procGen' = procGen + 1
  /\ gobTypes' = <<>>
  /\ bootRuns' = bootRuns + 1
  /\ dbBefore' = db
  /\ prevReady' = TRUE
  /\ UNCHANGED <<db, boot, bootTodo, bootErr, decorator, ncalls, callVars, keyVars, active,
                 cacheID, keysSeen, committedArgs, storedBefore, menu>>

\* Every overlap of two identical cacheable calls, then p1's further calls
\* across successive processes.
OverlapInit ==
  \E c \in {x \in Calls : Cacheable(x)} :
    \E v \in ApiVals(c.op) : Encodable(v) /\ OverlapState(c, v, OverlapMenu(c))

ProcNext == Next \/ Restart

ProcSpec == OverlapInit /\ [][ProcNext]_vars

\* ---------------------------------------------------------------------
\* Bootstrap: BoltCache on a fresh store, or again on a store an earlier
\* BoltCache initialised and decorated calls have written to.
\* ---------------------------------------------------------------------
UsedDb ==
  [InitialisedDb EXCEPT
     ![<<bucketChapters>>] = Put(@, "0", [kind |-> "gob", val |-> "V1"]),
     ![<<bucketVerses, bucketVerse>>] = Put(@, "1:1", [kind |-> "gob", val |-> "V2"])]

BootInit ==
  /\ \E d \in {[x \in {} |-> EmptyEntries], UsedDb} :
       /\ db = d
       /\ prevReady = (d = UsedDb)
       /\ bootRuns = IF d = UsedDb THEN 2 ELSE 1
       /\ decorator = IF d = UsedDb THEN "boltCacheMiddleware" ELSE Nil
  /\ boot = "running"
  /\ bootTodo = DOMAIN BoltCacheBuckets
  /\ bootErr = NoErr
  /\ dbBefore = db
  /\ ncalls = 0
  /\ CallersIdle
  /\ active = Procs
  /\ kin = NoKeyInput
  /\ kout = NoKeys

BootNext == BoltCacheStep \/ BoltCacheAgain

BootSpec == BootInit /\ [][BootNext]_vars

\* ---------------------------------------------------------------------
\* versesReqOpt.key applied to two option lists for the same chapter.
\* ---------------------------------------------------------------------
RECURSIVE SeqsUpTo(_)
SeqsUpTo(n) == IF n = 0 THEN {<<>>}
               ELSE SeqsUpTo(n - 1) \cup {s \o <<x>> : s \in SeqsUpTo(n - 1), x \in {1, 2}}

\* One scalar option (each of the six, or Page 0, the zero value), then
\* translations and media.
ScalarOpts ==
  {VersesPage(0), VersesPage(1), VersesLanguage("en"), VersesRecitation(1),
   VersesTextType("words"), VersesLimit(1), VersesOffset(1)}

KeyOptList(sc, t, m) == <<sc, VersesTranslations(t), VersesMedia(m)>>

\* The second call has the first call's scalar option, none, or Page(1).
KeyInit ==
  /\ \E s1 \in ScalarOpts, t1, t2, m1, m2 \in SeqsUpTo(MaxSeqLen) :
       \E s2 \in {s1, VersesPage(0), VersesPage(1)} :
         kin = [o1 |-> KeyOptList(s1, t1, m1), o2 |-> KeyOptList(s2, t2, m2), ch |-> 2]
  /\ kout = NoKeys
  /\ db = InitialisedDb
  /\ boot = "ready"
  /\ bootTodo = {}
  /\ bootRuns = 1
  /\ bootErr = NoErr
  /\ decorator = "boltCacheMiddleware"
  /\ dbBefore = [x \in {} |-> EmptyEntries]
  /\ prevReady = FALSE
  /\ ncalls = 0
  /\ CallersIdle
  /\ active = {}

\* Both Verses calls fold their options and derive their key in one
\* process (the first derivation registers the key's gob types).
DeriveKeys ==
  /\ kout = NoKeys
  /\ kout' = <<VersesKey(FoldOpts(ZeroVersesReqOpt, kin.o1), kin.ch, FreshReg),
               VersesKey(FoldOpts(ZeroVersesReqOpt, kin.o2), kin.ch, FreshReg)>>
  /\ UNCHANGED <<bootVars, ncalls, callVars, kin, active, procVars>>

KeySpec == KeyInit /\ [][DeriveKeys]_vars

\* ---------------------------------------------------------------------
\* Bucket paths and cache keys of two cached calls.
\* ---------------------------------------------------------------------
ArgInts == {-1, 0, 1, 2, 11, 12}
LangOptLists ==
  {<<>>, <<LanguageID(0)>>, <<LanguageID(1)>>, <<LanguageID(12)>>,
   <<LanguageID(1), LanguageID(0)>>}
TafsirOptLists == {<<>>, <<TafsirID(0)>>, <<TafsirID(1)>>, <<TafsirID(11)>>}
LangOps == ListOps \cup {"Chapter", "ChapterInfo"}

ArgCalls ==
  {MkCall(o, 0, 0, 0, os) : o \in ListOps, os \in LangOptLists}
  \cup {MkCall(o, i, 0, 0, os) : o \in {"Chapter", "ChapterInfo"}, i \in ArgInts,
                                  os \in LangOptLists}
  \cup {MkCall("Verse", 0, c, v, <<>>) : c \in ArgInts, v \in ArgInts}
  \cup {MkCall("VerseTafsir", 0, c, v, os) : c \in ArgInts \ {0}, v \in ArgInts \ {0},
                                            os \in TafsirOptLists}
  \cup {MkCall("Verses", 0, c, 0, os) : c \in {1, 2}, os \in {<<>>, <<VersesPage(1)>>}}
  \cup {MkCall("Juzzah", 0, 0, 0, <<>>)}

ArgKeyInit ==
  /\ \E a1 \in ArgCalls, a2 \in ArgCalls : kin = [a1 |-> a1, a2 |-> a2]
  /\ kout = NoKeys
  /\ db = InitialisedDb
  /\ boot = "ready"
  /\ bootTodo = {}
  /\ bootRuns = 1
  /\ bootErr = NoErr
  /\ decorator = "boltCacheMiddleware"
  /\ dbBefore = [x \in {} |-> EmptyEntries]
  /\ prevReady = FALSE
  /\ ncalls = 0
  /\ CallersIdle
  /\ active = {}

\* Both calls fold their options and derive their bucket path and key in
\* one process.
DeriveArgKeys ==
  /\ kout = NoKeys
  /\ kout' = <<<<PathOf(kin.a1.op), CacheKey(kin.a1, FreshReg)>>, <<PathOf(kin.a2.op), CacheKey(kin.a2, FreshReg)>>>>
  /\ UNCHANGED <<bootVars, ncalls, callVars, kin, active, procVars>>

ArgKeySpec == ArgKeyInit /\ [][DeriveArgKeys]_vars

\* =====================================================================
\* Properties
\* =====================================================================
Done(p) == pc[p] = "done"
Missed(p) == cacheable[p] /\ ~hit[p]

TransparencyOnError ==
  \A p \in Procs :
    (Done(p) /\ Missed(p) /\ fetched[p].err # NoErr)
      => /\ res[p] = [val |-> Nil, err |-> fetched[p].err]
         /\ wrote[p] = "none"

TransparencyOnErrorWitness ==
  \E p \in Procs : Done(p) /\ Missed(p) /\ fetched[p].err = ApiErr

\* C3 (as stated): a decorated call fails if and only if the wrapped API
\* would fail at the moment the decorated call returns.
FailsIffWrappedWouldFail ==
  \A p \in Procs :
    Done(p) => ((res[p].err # NoErr) <=> ~apiUpAtRet[p])

\* C3 (amended): a decorated call fails if and only if it invoked the wrapped
\* API and that invocation failed, and then it fails with that error; a call
\* served from the cache never fails.
FailsIffItsWrappedCallFails ==
  \A p \in Procs :
    Done(p) => /\ (res[p].err # NoErr) <=> (apiCalls[p] = 1 /\ fetched[p].err # NoErr)
               /\ res[p].err # NoErr => res[p].err = fetched[p].err

FailsIffItsWrappedCallFailsWitness ==
  \E p \in Procs : Done(p) /\ hit[p] /\ res[p].err = NoErr /\ ~apiUpAtRet[p]

\* C4: on a miss with a successful wrapped fetch of V, the decorated call
\* returns (V, nil) whether the encoding and the store write succeed or fail.
WriteFailureIsolation ==
  \A p \in Procs :
    (Done(p) /\ Missed(p) /\ fetched[p].err = NoErr)
      => res[p] = [val |-> fetched[p].val, err |-> NoErr]

WriteFailureIsolationWitness ==
  /\ \E p \in Procs : Done(p) /\ wrote[p] = "fail"
  /\ \E p \in Procs : Done(p) /\ wrote[p] = "encfail"

\* C5: a decorated Search never reads or writes the store and, when it
\* returns, has invoked the wrapped Search exactly once and returns its
\* result and error unchanged.
SearchBypass ==
  \A p \in Procs :
    call[p].op = "Search"
      => /\ lookups[p] = 0
         /\ wrote[p] = "none"
         /\ pc[p] # "panic"
         /\ Done(p) => (apiCalls[p] = 1 /\ res[p] = fetched[p])

SearchBypassWitness ==
  \E p \in Procs : Done(p) /\ call[p].op = "Search" /\ succBefore[p] # {}

Opt1 == FoldOpts(ZeroVersesReqOpt, kin.o1)
Opt2 == FoldOpts(ZeroVersesReqOpt, kin.o2)

IdempotentBootstrapNoError ==
  prevReady => (db = dbBefore /\ boot # "failed")

\* C8 (amended): a rerun never changes buckets or entries and never fails
\* because of the existing buckets; it fails only if the store's transaction
\* fails (a read-only store, an I/O error).
IdempotentBootstrap ==
  prevReady => /\ db = dbBefore
               /\ boot = "failed" => bootErr = "ErrTx"

IdempotentBootstrapWitness ==
  prevReady /\ boot = "ready" /\ bootErr = NoErr /\ DOMAIN db[<<bucketChapters>>] # {}

\* C9: after BoltCache returns successfully every top-level and nested
\* bucket the decorated methods use exists.
BootstrapCreatesAll ==
  boot = "ready" => /\ RequiredPaths \subseteq DOMAIN db
                    /\ \A op \in CachedOps : PathOf(op) \in DOMAIN db

BootstrapCreatesAllWitness == boot = "ready" /\ bootRuns = 1

\* C10: a BoltCache whose bucket creation fails returns a nil decorator and a
\* non-nil error; a non-nil decorator only exists over a complete tree.
BootstrapFailureFatal ==
  /\ boot = "failed" => (decorator = Nil /\ bootErr # NoErr)
  /\ decorator # Nil => RequiredPaths \subseteq DOMAIN db

BootstrapFailureFatalWitness ==
  boot = "failed" /\ bootRuns = 1 /\ DOMAIN db # {}

\* C11: for every cached operation an absent key, an undecodable value or a
\* missing (top-level or nested) bucket at lookup is a miss: the call never
\* crashes and goes on to the wrapped fetch instead of returning a hit.
LookupFailureIsMiss ==
  \A p \in Procs :
    /\ pc[p] # "panic"
    /\ (cacheable[p] /\ pc[p] \in {"fetch", "write", "put", "done"} /\ seen[p] # "gob")
         => (~hit[p] /\ apiCalls[p] <= 1 /\ lookups[p] = 1)

SameKeyMisses(p, q) ==
  /\ p # q
  /\ pc[p] = "done" /\ pc[q] = "done"
  /\ cacheable[p] /\ cacheable[q] /\ ~hit[p] /\ ~hit[q]
  /\ CallIdOf(p) = CallIdOf(q)

ConcurrentMissesOneValue ==
  \A p, q \in Procs :
    SameKeyMisses(p, q) =>
      /\ apiCalls[p] = 1 /\ apiCalls[q] = 1
      /\ (\E r \in {p, q} : wrote[r] = "ok")
           => Get(db[PathOf(call[p].op)], cacheID[p])
                \in {valueEncoder(fetched[r].val).buf : r \in {x \in {p, q} : wrote[x] = "ok"}}

ConcurrentMissesOneValueWitness ==
  \E p, q \in Procs :
    /\ SameKeyMisses(p, q)
    /\ wrote[p] = "ok" /\ wrote[q] = "ok"
    /\ fetched[p].val # fetched[q].val

\* C15: for the language-filtered methods a call without a LanguageID option
\* and the same call with LanguageID(0) use the same bucket and key, so one is
\* served from the entry the other stored.
LangUnsetSameAsZero ==
  (/\ kout # NoKeys
   /\ kin.a1.op \in LangOps /\ kin.a2.op = kin.a1.op
   /\ kin.a1.id = kin.a2.id
   /\ kin.a1.opts = <<>> /\ kin.a2.opts = <<LanguageID(0)>>)
  => kout[1] = kout[2]

LangUnsetSameAsZeroWitness ==
  /\ kout # NoKeys
  /\ kin.a1.op = "Chapter" /\ kin.a2.op = "Chapter" /\ kin.a1.id = kin.a2.id
  /\ kin.a1.opts = <<>> /\ kin.a2.opts = <<LanguageID(0)>>

\* The components of a composite key as decimal text (TLC's ToString of the
\* integer): the language filter value and id for Chapter and ChapterInfo,
\* chapter and verse for Verse, tafsir text, chapter and verse for VerseTafsir.
KeyParts(c) ==
  CASE c.op \in {"Chapter", "ChapterInfo"} ->
         <<ToString(FoldOpts(ZeroReqOpt, c.opts).languageID), ToString(c.id)>>
    [] c.op = "Verse" -> <<ToString(c.ch), ToString(c.vid)>>
    [] c.op = "VerseTafsir" ->
         <<FoldOpts(ZeroVerseTafsirReqOpts, c.opts).Tafsir, ToString(c.ch), ToString(c.vid)>>
    [] OTHER -> <<>>

CompositeOps == {"Chapter", "ChapterInfo", "Verse", "VerseTafsir"}

\* C18: a composite key is its components joined by ":" in the fixed order,
\* and within one bucket two calls share a key exactly when their component
\* tuples are equal.
CompositeKeysCanonical ==
  (kout # NoKeys /\ kin.a1.op \in CompositeOps)
  => /\ kout[1][2] = IF Len(KeyParts(kin.a1)) = 2
                     THEN KeyParts(kin.a1)[1] \o ":" \o KeyParts(kin.a1)[2]
                     ELSE KeyParts(kin.a1)[1] \o ":" \o KeyParts(kin.a1)[2]
                          \o ":" \o KeyParts(kin.a1)[3]
     /\ kin.a2.op = kin.a1.op => ((kout[1] = kout[2]) <=> (KeyParts(kin.a1) = KeyParts(kin.a2)))

CompositeKeysCanonicalWitness ==
  /\ kout # NoKeys
  /\ kin.a1.op = "Verse" /\ kin.a2.op = "Verse"
  /\ kin.a1.ch = 1 /\ kin.a1.vid = 12 /\ kin.a2.ch = 11 /\ kin.a2.vid = 2

\* C16 (as stated): a call whose context is cancelled while its wrapped call
\* is pending returns the cancellation error and writes nothing; every entry
\* in the store when it was cancelled is still there.
CancelNoWrite ==
  \A p \in Procs :
    (cancelled[p] /\ pc[p] = "done")
      => /\ res[p].err = CtxErr
         /\ wrote[p] = "none"
         /\ keysAtCancel[p] \subseteq StoreKeys

\* C16 (amended): the decorator never reads the context. A cancelled call
\* whose wrapped call fails (with the cancellation error or any other)
\* returns that error and writes nothing; one whose wrapped call still
\* returns a value returns it. Every entry in the store when it was
\* cancelled is still there.
CancelledErrorNoWrite ==
  \A p \in Procs :
    (cancelled[p] /\ pc[p] = "done")
      => /\ fetched[p].err # NoErr
              => (res[p] = [val |-> Nil, err |-> fetched[p].err] /\ wrote[p] = "none")
         /\ fetched[p].err = NoErr => res[p] = fetched[p]
         /\ keysAtCancel[p] \subseteq StoreKeys

CancelledErrorNoWriteWitness ==
  \E p \in Procs : cancelled[p] /\ pc[p] = "done" /\ cacheable[p] /\ keysAtCancel[p] # {}
                   /\ fetched[p].err = CtxErr

\* C17: on a miss the wrapped call receives the caller's original arguments;
\* in particular Verses gets translations and media in the caller's order.
WrappedGetsCallerArgs ==
  \A p \in Procs : (pc[p] \in {"write", "put", "done"} /\ apiCalls[p] = 1) => sent[p] = call[p].opts

\* The names of the buckets nested directly in the bucket at path.
NestedNames(path) ==
  {q[Len(q)] : q \in {r \in RequiredPaths : Len(r) = Len(path) + 1
                                         /\ SubSeq(r, 1, Len(path)) = path}}

\* C19: two different methods never use the same (bucket path, key), and no
\* key a method uses is the name of a bucket nested where it reads and writes.
NamespaceSeparation ==
  kout # NoKeys =>
    /\ kin.a1.op # kin.a2.op => kout[1] # kout[2]
    /\ \A i \in 1..2 : kout[i][2] \notin NestedNames(kout[i][1])

NamespaceSeparationWitness ==
  /\ kout # NoKeys
  /\ kin.a1.op = "Chapter" /\ kin.a2.op = "ChapterInfo"
  /\ kout[1][2] = kout[2][2]

\* C20: after BoltCache no decorated call creates, re-creates or deletes a
\* bucket: every step leaves the set of bucket paths as it is.
NamespaceTreeStable == [][DOMAIN db' = DOMAIN db]_vars

NamespaceTreeStableWitness ==
  /\ DOMAIN db = RequiredPaths
  /\ \E p \in Procs : wrote[p] = "ok" /\ PathOf(call[p].op) = <<bucketChapters>>

\* C21: no step removes an entry from the store, and a committed write puts
\* its bytes under its own key and adds no other entry.
EntriesNeverDeleted ==
  [][/\ StoreKeys \subseteq StoreKeys'
     /\ \A p \in Procs :
          (wrote[p] # "ok" /\ wrote'[p] = "ok")
            => /\ Get(db'[PathOf(call[p].op)], cacheID[p])
                    = valueEncoder(fetched[p].val).buf
               /\ StoreKeys' \subseteq StoreKeys \cup {<<PathOf(call[p].op), cacheID[p]>>}
    ]_vars

EntriesNeverDeletedWitness ==
  \E p, q \in Procs :
    /\ p # q
    /\ wrote[p] = "ok" /\ wrote[q] = "ok"
    /\ CallIdOf(p) = CallIdOf(q)
    /\ Get(db[PathOf(call[p].op)], cacheID[p]) = valueEncoder(fetched[p].val).buf
    /\ fetched[q].val # fetched[p].val
    /\ Cardinality(StoreKeys) >= 1

\* C22: a call that finds undecodable bytes under its key fetches, and when
\* its write commits the entry decodes to the fresh value; later identical
\* calls hit with the most recently committed value.
DecodeFailureRepaired ==
  \A p \in Procs :
    /\ (seen[p] \in {"corrupt", "empty"} /\ pc[p] = "done" /\ wrote[p] = "ok")
         => /\ apiCalls[p] = 1
            /\ valueDecode(Get(db[PathOf(call[p].op)], cacheID[p]))
                 = [err |-> NoErr, out |-> fetched[p].val]
    /\ (pc[p] = "done" /\ cacheable[p] /\ prior[p] # Nil)
         => (hit[p] /\ res[p] = [val |-> prior[p], err |-> NoErr])

DecodeFailureRepairedWitness ==
  \E p \in Procs : seen[p] = "corrupt" /\ pc[p] = "done" /\ wrote[p] = "ok"

\* C23: for every value the wrapped VerseTafsir can return, encoding succeeds
\* and decoding the bytes gives back the same value.
CodecRoundTripAll ==
  kout # NoKeys => (kout[1] = NoErr /\ kout[2] = [err |-> NoErr, out |-> kin])

\* The errors valueDecode returns for bytes that are present under a key but
\* cannot be decoded.
PresentUndecodableErrs == {valueDecode(b).err : b \in {CorruptBytes, EmptyBytes}}

\* C24: a lookup of an absent key reports a not-found condition that differs
\* from every failure to decode bytes that are present.
NotFoundDistinguishable ==
  \A p \in Procs :
    (cacheable[p] /\ pc[p] \in {"fetch", "write", "put", "done"} /\ seen[p] = "nil")
      => lookupErr[p] \notin PresentUndecodableErrs

\* C25: under any interleaving, a hit returns a whole value that a decorated
\* call with the same method and key wrote and committed.
HitReturnsCommitted ==
  \A p \in Procs : (pc[p] = "done" /\ hit[p]) => <<CallIdOf(p), res[p].val>> \in commits

HitReturnsCommittedWitness ==
  \E p, q \in Procs :
    /\ p # q /\ pc[p] = "done" /\ hit[p]
    /\ wrote[q] = "ok" /\ CallIdOf(q) = CallIdOf(p)
    /\ call[q] # call[p]
    /\ res[p].val = fetched[q].val

\* C26: a cached call invokes the wrapped API zero times on a hit and exactly
\* once on a miss.
AtMostOneFetch ==
  \A p \in Procs :
    (pc[p] = "done" /\ cacheable[p])
      => (IF hit[p] THEN apiCalls[p] = 0 ELSE apiCalls[p] = 1)

AtMostOneFetchWitness ==
  \E p, q \in Procs :
    /\ pc[p] = "done" /\ cacheable[p] /\ hit[p]
    /\ pc[q] = "done" /\ cacheable[q] /\ ~hit[q] /\ wrote[q] = "ok"

\* C27: the only steps that change the store are a caller's write after a
\* successful wrapped call, and such a step puts exactly one entry, in that
\* method's bucket under that call's key, holding the value it returns.
WriteOnlyOwnEntry ==
  [][db' # db =>
       \E p \in Procs :
         /\ pc[p] = "put" /\ pc'[p] = "done"
         /\ fetched[p].err = NoErr /\ res'[p].err = NoErr
         /\ db' = [db EXCEPT ![PathOf(call[p].op)] =
                     Put(@, cacheID[p], valueEncoder(res'[p].val).buf)]
    ]_vars

WriteOnlyOwnEntryWitness ==
  \E p, q \in Procs :
    /\ pc[p] = "done" /\ wrote[p] = "ok"
    /\ pc[q] = "done" /\ (hit[q] \/ res[q].err = ApiErr)

\* The contents of the slices the caller passed through VersesMedia and
\* VersesTranslations options.
CallerSlices(os) ==
  [i \in {j \in 1..Len(os) : os[j].fn \in {"VersesMedia", "VersesTranslations"}} |-> os[i].arg]

\* C28: after decorated Verses returns (hit or miss), the caller's media and
\* translations slices hold what they held before the call.
CallerSlicesUnmodified ==
  \A p \in Procs :
    (pc[p] = "done" /\ call[p].op = "Verses") => CallerSlices(sent[p]) = CallerSlices(call[p].opts)

\* C29: a failing bucket transaction rolls back only itself: the buckets
\* committed by earlier iterations stay while BoltCache returns the error,
\* and every bucket present has all its nested buckets.
BootstrapNotAtomic ==
  /\ [][(boot = "running" /\ boot' = "failed")
          => (db' = db /\ bootErr' # NoErr /\ decorator' = Nil)]_vars
  /\ [](boot = "failed" =>
          \A b \in DOMAIN BoltCacheBuckets :
            <<b>> \in DOMAIN db =>
              \A i \in 1..Len(BoltCacheBuckets[b]) : <<b, BoltCacheBuckets[b][i]>> \in DOMAIN db)

BootstrapNotAtomicWitness ==
  /\ boot = "failed"
  /\ DOMAIN dbBefore \subseteq DOMAIN db
  /\ DOMAIN db # DOMAIN dbBefore

\* C30 as stated: once a key is cached, every later hit returns the value
\* cached for it then, whatever the wrapped API answers afterwards.
CachedValueNeverChanges ==
  \A p \in Procs :
    (pc[p] = "done" /\ hit[p])
      => \A x \in commits : x[1] = CallIdOf(p) => x[2] = res[p].val

\* C30 amended: a call that starts when a value is committed for its key
\* returns the latest committed value without calling the wrapped API,
\* whether or not the API is up and even while another call on that key is
\* still fetching; such a call's later write replaces the cached value.
StaleValueWhileQuiescent ==
  \A p \in Procs :
    (pc[p] = "done" /\ cacheable[p] /\ prior[p] # Nil)
      => /\ hit[p] /\ apiCalls[p] = 0
         /\ res[p].val = prior[p]
         /\ <<CallIdOf(p), prior[p]>> \in commits

StaleValueWhileQuiescentWitness ==
  \E p \in Procs :
    pc[p] = "done" /\ prior[p] # Nil /\ hit[p] /\ ~apiUpAtRet[p]
    /\ \E q \in Procs \ {p} : pc[q] \in {"fetch", "write", "put"} /\ CallIdOf(q) = CallIdOf(p)

====
